---- MODULE Spec2Model ----
(***************************************************************************)
(* Model of the wide-sheet inventory dashboard (src/app.js): the cell      *)
(* normaliser cleanNumber, the header classification and per-block         *)
(* aggregation, the day-by-day carry-forward loop and the day filter of    *)
(* processData, and the day selector.                                      *)
(*                                                                         *)
(* A text is a sequence of one-character strings.  A Thai character is     *)
(* written as the name of its code point ("U0E22"), one sequence element   *)
(* per UTF-16 code unit, so that String.prototype.includes is a substring  *)
(* search on the sequence.  A row is a sequence of texts (PapaParse without *)
(* header mode); the JavaScript index c is the TLA+ index c + 1.  Numbers  *)
(* are integers: the cell alphabet has no decimal point and no exponent.   *)
(* Product codes are ordinary texts, none of them the name of a property   *)
(* of Object.prototype.                                                    *)
(***************************************************************************)
EXTENDS Integers, Sequences, FiniteSets, TLC

VARIABLES
    pc,               \* "parsed": the parse callback is about to call processData; "idle"
    data,             \* the parsed rows handed to processData by the parse callback
    globalStoreData,  \* src/app.js:13
    activeDayIndex,   \* src/app.js:14 (0-based, -1 before the first load)
    builtDays,        \* the day list at the end of the day loop, before the filter
    totalRemaining,   \* the number shown in the 'total-remaining' summary card
    fetches           \* the fetchData calls in the order they were started

vars ==
    <<pc, data, globalStoreData, activeDayIndex, builtDays, totalRemaining, fetches>>

-----------------------------------------------------------------------------
(* Bounds of the model *)

MaxRows == 2      \* rows below the header row of a generated sheet
MaxDays == 3      \* day blocks of a generated sheet
MaxLen == 3       \* characters of a generated cell text
MaxFetches == 3   \* fetchData calls of one page visit
MaxCols == 280    \* widest header row of the block-count sheets

-----------------------------------------------------------------------------
(* Texts *)

WhiteSpace == {" ", "\t"}

DigitChars == {"0", "1", "2", "3", "4", "5", "6", "7", "8", "9"}

DigitVal(ch) ==
    CASE ch = "0" -> 0 [] ch = "1" -> 1 [] ch = "2" -> 2 [] ch = "3" -> 3
      [] ch = "4" -> 4 [] ch = "5" -> 5 [] ch = "6" -> 6 [] ch = "7" -> 7
      [] ch = "8" -> 8 [] ch = "9" -> 9

\* String.prototype.trim
RECURSIVE TrimLeft(_)
TrimLeft(s) ==
    IF s # <<>> /\ Head(s) \in WhiteSpace THEN TrimLeft(Tail(s)) ELSE s

RECURSIVE TrimRight(_)
TrimRight(s) ==
    IF s # <<>> /\ s[Len(s)] \in WhiteSpace
    THEN TrimRight(SubSeq(s, 1, Len(s) - 1))
    ELSE s

trim(s) == TrimRight(TrimLeft(s))

\* String.prototype.toLowerCase on the letters the headers use
LowerChar(ch) ==
    CASE ch = "A" -> "a" [] ch = "E" -> "e" [] ch = "L" -> "l"
      [] ch = "O" -> "o" [] ch = "S" -> "s" [] ch = "T" -> "t"
      [] ch = "W" -> "w"
      [] OTHER -> ch

toLowerCase(s) == [i \in 1..Len(s) |-> LowerChar(s[i])]

\* String.prototype.includes
includes(s, kw) ==
    \E i \in 0..(Len(s) - Len(kw)) : SubSeq(s, i + 1, i + Len(kw)) = kw

\* row[c]: the text of the cell, or the empty text where JavaScript gives
\* undefined.  Every reader of a cell treats the two alike, except the use of
\* row[2] as a key, and row[2] exists in every row that has a name in row[3].
At(row, c) == IF c + 1 <= Len(row) THEN row[c + 1] ELSE <<>>

-----------------------------------------------------------------------------
(* A statement is evaluated once and its value named: Step hands the      *)
(* value acc of one statement to the statements Loop that follow it, and  *)
(* a loop is a recursive operator that carries its variables in acc.      *)

Step(acc, Loop(_)) == CHOOSE out \in {Loop(a) : a \in {acc}} : TRUE

-----------------------------------------------------------------------------
(* Cell normaliser *)

NaN == [nan |-> TRUE, num |-> 0]

Num(n) == [nan |-> FALSE, num |-> n]

\* the value of the longest run of digits at the front of s, as <<value, length>>
RECURSIVE DigitPrefix(_, _, _)
DigitPrefix(s, acc, n) ==
    IF s # <<>> /\ Head(s) \in DigitChars
    THEN DigitPrefix(Tail(s), 10 * acc + DigitVal(Head(s)), n + 1)
    ELSE <<acc, n>>

\* parseFloat on the integer fragment: optional sign, digits, anything after
\* the digits ignored, NaN when there is no digit
Signed(t) == t # <<>> /\ Head(t) \in {"-", "+"}

SignedValue(t, dp) ==
    IF dp[2] = 0 THEN NaN
    ELSE IF Signed(t) /\ Head(t) = "-" THEN Num(0 - dp[1]) ELSE Num(dp[1])

ParseTrimmed(t) ==
    SignedValue(t, DigitPrefix(IF Signed(t) THEN Tail(t) ELSE t, 0, 0))

parseFloat(s) == ParseTrimmed(TrimLeft(s))

\* isNaN(num) ? 0 : num, src/app.js:117
OrZero(num) == IF num.nan THEN 0 ELSE num.num

\* the tests on the cleaned text, src/app.js:115-117
CleanStrValue(cleanStr) ==
    IF cleanStr = <<>> \/ cleanStr = <<"-">> THEN 0 ELSE OrZero(parseFloat(cleanStr))

cleanNumber_keepsCommas(val) ==
    IF val = <<>> THEN 0 ELSE CleanStrValue(trim(val))

cleanNumber(val) ==
    IF val = <<>> THEN 0
    ELSE CleanStrValue(trim(SelectSeq(val, LAMBDA ch : ch # ",")))

Abs(n) == IF n < 0 THEN 0 - n ELSE n

Max(a, b) == IF a > b THEN a ELSE b

-----------------------------------------------------------------------------
(* Header vocabulary of processData *)

kwBroughtForward == <<"U0E22", "U0E01", "U0E21", "U0E32">>
kwReceived == <<"U0E23", "U0E31", "U0E1A", "U0E40", "U0E02", "U0E49", "U0E32">>
kwTotal == <<"t", "o", "t", "a", "l">>
kwSold == <<"U0E02", "U0E32", "U0E22">>
kwStockCut == <<"U0E15", "U0E31", "U0E14", "U0E2A", "U0E15", "U0E47", "U0E2D", "U0E01">>
kwWas == <<"w", "a", "s">>
kwDiscard == <<"U0E17", "U0E34", "U0E49", "U0E07">>

-----------------------------------------------------------------------------
(* processData: one row and one 8-column day block (src/app.js:164-184) *)

\* received = Math.max(received, absVal), src/app.js:178
TakeReceived_sum(received, absVal) == received + absVal

TakeReceived(received, absVal) == Max(received, absVal)

NoValues == [received |-> 0, sold |-> 0, waste |-> 0, broughtForwardSheet |-> 0]

\* the body of the column loop for one cell, src/app.js:173-183
ExtractCell(acc, header, val) ==
    IF includes(header, kwBroughtForward)
    THEN [acc EXCEPT !.broughtForwardSheet = val]
    ELSE IF includes(header, kwReceived) \/ includes(header, kwTotal)
    THEN [acc EXCEPT !.received = TakeReceived(@, Abs(val))]
    ELSE IF includes(header, kwSold) \/ includes(header, kwStockCut)
    THEN [acc EXCEPT !.sold = @ + Abs(val)]
    ELSE IF includes(header, kwWas) \/ includes(header, kwDiscard)
    THEN [acc EXCEPT !.waste = @ + Abs(val)]
    ELSE acc

RECURSIVE ExtractBlock(_, _, _, _, _)
ExtractBlock(row1, row, dayStartCol, c, acc) ==
    IF c >= 8 THEN acc
    ELSE Step(toLowerCase(At(row1, dayStartCol + c)), LAMBDA header :
         Step(cleanNumber(At(row, dayStartCol + c)), LAMBDA val :
         Step(ExtractCell(acc, header, val), LAMBDA a :
              ExtractBlock(row1, row, dayStartCol, c + 1, a))))

-----------------------------------------------------------------------------
(* processData: the row loop of one day (src/app.js:151-211) *)

IsProductRow_codeRequired(row) ==
    /\ At(row, 1) # <<>>
    /\ trim(At(row, 1)) # <<>>
    /\ At(row, 2) # <<>>
    /\ trim(At(row, 2)) # <<>>
    /\ At(row, 3) # <<>>
    /\ trim(At(row, 3)) # <<>>

\* the validity test of src/app.js:155, negated
IsProductRow(row) ==
    /\ At(row, 1) # <<>>
    /\ trim(At(row, 1)) # <<>>
    /\ At(row, 3) # <<>>
    /\ trim(At(row, 3)) # <<>>

Carried_none(previousDayRemain, code) == 0

\* previousDayRemain[code] || 0 ; !previousDayRemain[code] is Carried(..) = 0
Carried(previousDayRemain, code) ==
    IF code \in DOMAIN previousDayRemain THEN previousDayRemain[code] ELSE 0

\* previousDayRemain[code] = v
SetCarried(previousDayRemain, code, v) ==
    [k \in (DOMAIN previousDayRemain) \cup {code} |->
        IF k = code THEN v ELSE previousDayRemain[k]]

SeedFromSheet_nonzero(previousDayRemain, day, code, broughtForwardSheet) ==
    IF day = 1 /\ Carried(previousDayRemain, code) = 0 /\ broughtForwardSheet # 0
    THEN SetCarried(previousDayRemain, code, broughtForwardSheet)
    ELSE previousDayRemain

\* the day-1 seed of src/app.js:187-189
SeedFromSheet(previousDayRemain, day, code, broughtForwardSheet) ==
    IF day = 1 /\ Carried(previousDayRemain, code) = 0 /\ broughtForwardSheet > 0
    THEN SetCarried(previousDayRemain, code, broughtForwardSheet)
    ELSE previousDayRemain

Remain_dropWaste(broughtForward, received, sold, waste) ==
    broughtForward + received - sold

Remain(broughtForward, received, sold, waste) ==
    broughtForward + received - sold - waste

HasAnyData_noCarry(broughtForward, received, sold, waste, remain) ==
    received # 0 \/ sold # 0 \/ waste # 0

\* the test of src/app.js:197
HasAnyData(broughtForward, received, sold, waste, remain) ==
    broughtForward # 0 \/ received # 0 \/ sold # 0 \/ waste # 0 \/ remain # 0

\* the product object of src/app.js:201-210, x the values of the day block
Product(row, broughtForward, x) ==
    [category |-> At(row, 1), code |-> At(row, 2), name |-> At(row, 3),
     broughtForward |-> broughtForward,
     received |-> x.received, sold |-> x.sold, waste |-> x.waste,
     remain |-> Remain(broughtForward, x.received, x.sold, x.waste)]

PushProduct_skipsZero(acc, seeded, p) ==
    [previousDayRemain |-> SetCarried(seeded, p.code, p.remain),
     products |->
         IF HasAnyData(p.broughtForward, p.received, p.sold, p.waste, p.remain)
         THEN Append(acc.products, p) ELSE acc.products,
     dayHasAnyData |->
         \/ acc.dayHasAnyData
         \/ HasAnyData(p.broughtForward, p.received, p.sold, p.waste, p.remain)]

\* src/app.js:195-210: save the remain, note the activity, push the product
PushProduct(acc, seeded, p) ==
    [previousDayRemain |-> SetCarried(seeded, p.code, p.remain),
     products |-> Append(acc.products, p),
     dayHasAnyData |->
         \/ acc.dayHasAnyData
         \/ HasAnyData(p.broughtForward, p.received, p.sold, p.waste, p.remain)]

\* the body of the row loop for a product row, src/app.js:160-210
ProductRow(acc, day, row, x) ==
    Step(SeedFromSheet(acc.previousDayRemain, day, At(row, 2), x.broughtForwardSheet),
         LAMBDA seeded :
    Step(Product(row, Carried(seeded, At(row, 2)), x), LAMBDA p :
         PushProduct(acc, seeded, p)))

\* acc = [previousDayRemain, products, dayHasAnyData]; i is the JavaScript row index
RECURSIVE RowLoop(_, _, _, _, _)
RowLoop(rows, day, dayStartCol, i, acc) ==
    IF i >= Len(rows) THEN acc
    ELSE IF ~IsProductRow(At(rows, i))
    THEN RowLoop(rows, day, dayStartCol, i + 1, acc)
    ELSE Step(ExtractBlock(At(rows, 0), At(rows, i), dayStartCol, 0, NoValues),
              LAMBDA x :
         Step(ProductRow(acc, day, At(rows, i), x), LAMBDA a :
              RowLoop(rows, day, dayStartCol, i + 1, a)))

-----------------------------------------------------------------------------
(* processData: day blocks and the day loop (src/app.js:123-219) *)

MaxDaysOf_noCap(totalCols) ==
    LET maxDays == (totalCols - 8) \div 8
    IN  IF maxDays < 1 THEN 1 ELSE maxDays

MaxDaysOf_noOffset(totalCols) ==
    LET maxDays == totalCols \div 8
    IN  IF maxDays > 31 THEN 31 ELSE IF maxDays < 1 THEN 1 ELSE maxDays

\* Math.floor((totalCols - 8) / 8) with the safety cap
MaxDaysOf(totalCols) ==
    LET maxDays == (totalCols - 8) \div 8
    IN  IF maxDays > 31 THEN 31 ELSE IF maxDays < 1 THEN 1 ELSE maxDays

DayStartCol(day) == 8 + (day - 1) * 8

EmptyCarry_stale == [k \in {<<"A">>} |-> 7]

\* let previousDayRemain = {}, src/app.js:134
EmptyCarry == [k \in {} |-> 0]

\* the body of the day loop for one day; acc = [previousDayRemain, days]
OneDay(rows, day, acc) ==
    Step(RowLoop(rows, day, DayStartCol(day), 1,
                 [previousDayRemain |-> acc.previousDayRemain,
                  products |-> <<>>, dayHasAnyData |-> FALSE]),
         LAMBDA r :
             [previousDayRemain |-> r.previousDayRemain,
              days |-> Append(acc.days,
                          [dayNum |-> day, dayStartCol |-> DayStartCol(day),
                           hasData |-> r.dayHasAnyData,
                           products |-> r.products])])

\* for (day = first; day <= last; day++): the days first..mid, then the days
\* mid+1..last from the variables the first half leaves (the same iterations
\* in the same order; halving keeps the evaluation shallow for 31 days)
RECURSIVE DayLoop(_, _, _, _)
DayLoop(rows, first, last, acc) ==
    IF first > last THEN acc
    ELSE IF first = last THEN OneDay(rows, first, acc)
    ELSE LET mid == (first + last) \div 2
         IN  Step(DayLoop(rows, first, mid, acc),
                  LAMBDA a : DayLoop(rows, mid + 1, last, a))

EmptyStore_keepsOld == globalStoreData

\* globalStoreData = [], src/app.js:133
EmptyStore == <<>>

\* the day list at src/app.js:219
BuildDays(rows) ==
    DayLoop(rows, 1, MaxDaysOf(Len(At(rows, 0))),
            [previousDayRemain |-> EmptyCarry, days |-> EmptyStore]).days

\* the stored day object (dateLabel is presentation and left out)
StoredDay(d) == [dayNum |-> d.dayNum, hasData |-> d.hasData, products |-> d.products]

FilterDays_noFallback(days) == SelectSeq(days, LAMBDA d : d.hasData)

\* src/app.js:221-225
FilterDays(days) ==
    LET validDays == SelectSeq(days, LAMBDA d : d.hasData)
    IN  IF Len(validDays) > 0 THEN validDays ELSE days

-----------------------------------------------------------------------------
(* processData: the active day and the summary card (src/app.js:238-289) *)

RECURSIVE SumSold(_)
SumSold(products) ==
    IF products = <<>> THEN 0 ELSE Head(products).sold + SumSold(Tail(products))

RECURSIVE SumRemain(_)
SumRemain(products) ==
    IF products = <<>> THEN 0 ELSE Head(products).remain + SumRemain(Tail(products))

\* the loop of src/app.js:241-248, j a 0-based index
RECURSIVE LatestActive(_, _)
LatestActive(store, j) ==
    IF j < 0 THEN Len(store) - 1
    ELSE IF SumSold(store[j + 1].products) > 0 THEN j
    ELSE LatestActive(store, j - 1)

NextActiveDayIndex_keepsIndex(store, idx) ==
    IF idx = -1 THEN LatestActive(store, Len(store) - 1) ELSE idx

\* src/app.js:239-250
NextActiveDayIndex(store, idx) ==
    IF idx = -1 \/ idx >= Len(store) THEN LatestActive(store, Len(store) - 1) ELSE idx

\* the text of 'total-remaining' after updateDashboardView
ShownRemaining(store, idx, shown) ==
    IF idx < 0 \/ idx >= Len(store) THEN shown
    ELSE Max(0, SumRemain(store[idx + 1].products))

-----------------------------------------------------------------------------
(* The sheets fed to processData *)

e == <<>>

hBroughtForward == kwBroughtForward
hReceived == kwReceived
hTotal == <<"T", "o", "t", "a", "l">>
hSold == kwSold
hStockCut == kwStockCut
hWaste == <<"W", "a", "s", "t", "e">>
hDiscard == kwDiscard
hRemain == <<"U0E04", "U0E07", "U0E40", "U0E2B", "U0E25", "U0E37", "U0E2D">>
hBroughtForwardTotal == kwBroughtForward \o <<" ">> \o kwTotal
hReceivedSold == kwReceived \o <<"/">> \o kwSold

\* brought forward, received, received, sold, sold, waste, waste, ignored
Layout1 ==
    <<hBroughtForward, hReceived, hTotal, hSold, hStockCut, hWaste, hDiscard, hRemain>>

\* brought forward twice, received (by priority), sold, waste, ignored twice, waste
Layout2 ==
    <<hBroughtForward, hBroughtForwardTotal, hReceivedSold, hSold, hWaste, hRemain,
      e, hDiscard>>

\* received twice, sold twice, waste, ignored three times
Layout3 ==
    <<hReceived, <<"T", "O", "T", "A", "L">>, hSold, hStockCut, hDiscard, hRemain,
      hRemain, hRemain>>

Layouts == {Layout1, Layout2, Layout3}

EmptyBlock == <<e, e, e, e, e, e, e, e>>

FillExample1 == <<<<"1", "0">>, <<"5">>, <<"5">>, <<"2">>, <<"1">>, <<"0">>, e, e>>
FillExample2 == <<e, <<"3">>, e, <<"3">>, e, e, e, e>>
FillOversold == <<e, <<"2">>, e, <<"-", "5">>, e, <<"1">>, <<"1">>, e>>
FillSellOut == <<e, e, e, <<"1", "2">>, e, e, e, e>>
FillNegative == <<<<"-", "4">>, e, e, e, e, e, e, e>>
FillMalformed ==
    <<<<"-", "4">>, <<"1", ",", "2", "3", "4">>, <<" ", "7", " ">>, <<"-">>,
      <<"1", "2", "a">>, <<"a", "b", "c">>, <<"+", "3">>, <<"9">>>>

Fillings == {FillExample1, FillOversold, FillMalformed}

\* columns 0-7 of a row: category in column 1, code in column 2, name in column 3
IdentA == <<e, <<"B">>, <<"A">>, <<"T">>, e, e, e, e>>
IdentK == <<e, <<"B">>, <<"K">>, <<"C">>, e, e, e, e>>
IdentNoCode == <<e, <<"B">>, e, <<"N">>, e, e, e, e>>
IdentBlankName == <<e, <<"B">>, <<"C">>, <<" ">>, e, e, e, e>>
IdentNoCategory == <<e, e, <<"D">>, <<"M">>, e, e, e, e>>
IdentBlankCategory == <<e, <<" ", "\t">>, <<"D">>, <<"M">>, e, e, e, e>>
IdentNoName == <<e, <<"B">>, <<"D">>, e, e, e, e, e>>

Idents == {IdentA, IdentK, IdentNoCode, IdentBlankName}

\* the identity columns of n rows: IdentA in every row but one
IdentLists(n) ==
    {[r \in 1..n |-> IF r = s THEN id ELSE IdentA] : s \in 1..n, id \in Idents}

\* how many day blocks of a generated sheet carry values
FilledCounts == 0..2

\* the day blocks of a sheet that carry values, and their cells
FillChoices(nRows, nDays) ==
    UNION {[S -> Fillings] :
              S \in {T \in SUBSET ((1..nRows) \X (1..nDays)) :
                        Cardinality(T) \in FilledCounts}}

\* every day block of the one row carries a filling or is empty
BlockChoices(nDays) ==
    [{1} \X (1..nDays) -> Fillings \cup {FillExample2, EmptyBlock}]

RECURSIVE HeaderBlocks(_, _)
HeaderBlocks(layout, nDays) ==
    IF nDays = 0 THEN <<>> ELSE layout \o HeaderBlocks(layout, nDays - 1)

HeaderRow(layout, nDays) == EmptyBlock \o HeaderBlocks(layout, nDays)

\* the last day block of row r that carries values, 0 when there is none
LastFilled(r, nDays, f) ==
    LET ds == {d \in 1..nDays : <<r, d>> \in DOMAIN f}
    IN  IF ds = {} THEN 0 ELSE CHOOSE d \in ds : \A d2 \in ds : d2 <= d

\* the cells of row r from column 8 on; the row ends with its last filled block
RECURSIVE BlockCells(_, _, _)
BlockCells(r, d, f) ==
    IF d = 0 THEN <<>>
    ELSE BlockCells(r, d - 1, f)
           \o (IF <<r, d>> \in DOMAIN f THEN f[<<r, d>>] ELSE EmptyBlock)

Sheet(layout, nDays, ids, f) ==
    <<HeaderRow(layout, nDays)>>
      \o [r \in 1..Len(ids) |-> ids[r] \o BlockCells(r, LastFilled(r, nDays, f), f)]

\* a header row of n columns, every column from column 8 on a received
\* column, and one product row without day cells
WideSheet(n) ==
    <<[c \in 1..n |-> IF c > 8 THEN hReceived ELSE e], IdentA>>

\* no rows at all; a header row alone; a blank last line; a product row
\* whose day cells lie beyond a 5-column header row; rows without a category,
\* with a blank category, without a name, and a row that ends before its name;
\* a row whose stock is sold out on day 2 of 3; two rows whose day 2 of 3 is
\* empty between a day that ends at zero and a day with activity
SpecialSheets ==
    {<<>>,
     <<HeaderRow(Layout1, 1)>>,
     <<HeaderRow(Layout1, 1), IdentA \o FillExample1, <<e>>>>,
     <<HeaderRow(Layout1, 2), IdentA \o FillNegative, IdentK \o FillExample1>>,
     <<<<e, e, e, e, e>>, IdentA \o FillExample1>>,
     <<HeaderRow(Layout1, 2), IdentNoCategory \o FillExample1, IdentK \o FillExample2>>,
     <<HeaderRow(Layout1, 2), IdentK \o FillExample1, IdentBlankCategory \o FillExample2>>,
     <<HeaderRow(Layout2, 1), IdentNoName \o FillExample1, <<e, <<"B">>, <<"D">>>>,
       IdentNoCode \o FillOversold>>,
     <<HeaderRow(Layout1, 3), IdentA \o FillExample1 \o FillSellOut>>,
     <<HeaderRow(Layout1, 3), IdentA \o FillExample2 \o EmptyBlock \o FillExample1,
       IdentK \o FillExample2 \o EmptyBlock \o FillOversold>>}

-----------------------------------------------------------------------------
(* State machine *)

\* the state in which the first parse callback is about to call processData
FirstLoad ==
    /\ pc = "parsed"
    /\ globalStoreData = <<>>
    /\ activeDayIndex = -1
    /\ builtDays = <<>>
    /\ totalRemaining = 0

\* the first fetchData call has received the text that was parsed into data
FirstFetch == fetches = <<[stage |-> "parse", sheet |-> data]>>

\* sheets of up to MaxRows rows and MaxDays day blocks
Init ==
    /\ FirstLoad
    /\ \/ \E nRows \in 1..MaxRows, nDays \in 1..MaxDays :
             \E ids \in IdentLists(nRows), f \in FillChoices(nRows, nDays) :
                data = Sheet(Layout1, nDays, ids, f)
       \/ data \in SpecialSheets
    /\ FirstFetch

\* sheets of one product row under every header layout
InitBlocks ==
    /\ FirstLoad
    /\ \E layout \in Layouts, nDays \in 1..MaxDays :
          \E f \in BlockChoices(nDays) :
             data = Sheet(layout, nDays, <<IdentA>>, f)
    /\ FirstFetch

\* sheets whose header rows have 0..MaxCols columns
InitWide ==
    /\ FirstLoad
    /\ \E n \in 0..MaxCols : data = WideSheet(n)
    /\ FirstFetch

\* processData(data) past the early return, src/app.js:123-255, with the
\* updateDashboardView it ends in: the new values of the variables it writes
ProcessDataResult(rows, idx0, shown0) ==
    Step(BuildDays(rows), LAMBDA days :
    Step(FilterDays([i \in 1..Len(days) |-> StoredDay(days[i])]), LAMBDA store :
    Step(NextActiveDayIndex(store, idx0), LAMBDA idx :
         [builtDays |-> days, globalStoreData |-> store, activeDayIndex |-> idx,
          totalRemaining |-> ShownRemaining(store, idx, shown0)])))

\* the fetchData call whose text is being parsed has run its pass
PassDone(fs) ==
    [f \in DOMAIN fs |->
        IF fs[f].stage = "parse" THEN [fs[f] EXCEPT !.stage = "done"] ELSE fs[f]]

\* the complete callback of parseCSV calling processData, src/app.js:101-103
ProcessData ==
    /\ pc = "parsed"
    /\ pc' = "idle"
    /\ data' = data
    /\ fetches' = PassDone(fetches)
    /\ IF Len(data) < 2
       THEN UNCHANGED <<globalStoreData, activeDayIndex, builtDays, totalRemaining>>
       ELSE \E out \in {ProcessDataResult(data, activeDayIndex, totalRemaining)} :
               /\ builtDays' = out.builtDays
               /\ globalStoreData' = out.globalStoreData
               /\ activeDayIndex' = out.activeDayIndex
               /\ totalRemaining' = out.totalRemaining

\* the change listener of the day selector, src/app.js:37-40; the options are
\* the indices of globalStoreData written by processData
DaySelectorChange ==
    /\ pc = "idle"
    /\ \E v \in 0..(Len(globalStoreData) - 1) :
          /\ activeDayIndex' = v
          /\ totalRemaining' = ShownRemaining(globalStoreData, v, totalRemaining)
    /\ UNCHANGED <<pc, data, globalStoreData, builtDays, fetches>>

Next == ProcessData \/ DaySelectorChange

Spec == Init /\ [][Next]_vars

SpecBlocks == InitBlocks /\ [][Next]_vars

SpecWide == InitWide /\ [][Next]_vars

\* the characters of generated cell texts
CellChars == {"1", "2", ",", "-", " ", "a"}

RECURSIVE Texts(_)
Texts(n) ==
    IF n = 0 THEN {<<>>}
    ELSE Texts(n - 1) \cup {Append(t, ch) : t \in Texts(n - 1), ch \in CellChars}

\* the cell texts of the malformed-cell scenario
ExampleCells ==
    {<<"1", ",", "2", "3", "4">>, <<"a", "b", "c">>, <<"-">>, <<>>, <<" ", " ">>,
     <<"-", "1", ",", "2", "3", "4">>, <<"+", "7">>, <<" ", "1", "2", "a", " ">>}

\* sheets of one day block and one product row whose received cell is text
CellSheet(text) == <<HeaderRow(Layout1, 1), IdentA \o <<e, text>>>>

InitCells ==
    /\ FirstLoad
    /\ \E text \in Texts(MaxLen) \cup ExampleCells : data = CellSheet(text)
    /\ FirstFetch

SpecCells == InitCells /\ [][Next]_vars

-----------------------------------------------------------------------------
(* The page: fetchData and the events that start it (src/app.js:21-108).   *)
(* A handler runs to completion: no event is taken while pc = "parsed".    *)

\* what the server can answer: a two-day sheet, a one-day sheet, a header row
\* alone and no rows at all
SheetTwoDays ==
    <<HeaderRow(Layout1, 2), IdentA \o FillExample1 \o FillExample2,
      IdentK \o FillOversold \o FillExample2>>

SheetOneDay == <<HeaderRow(Layout1, 1), IdentA \o FillOversold>>

ServedSheets == {SheetTwoDays, SheetOneDay, <<HeaderRow(Layout1, 1)>>, <<>>}

\* fetchData() up to its first await, src/app.js:70-76
fetchData ==
    /\ pc = "idle"
    /\ Len(fetches) < MaxFetches
    /\ fetches' = Append(fetches, [stage |-> "fetch", sheet |-> <<>>])
    /\ UNCHANGED <<pc, data, globalStoreData, activeDayIndex, builtDays, totalRemaining>>

\* the state after the DOMContentLoaded handler, src/app.js:21-22: nothing
\* loaded and the first fetchData waiting for its response
InitPage ==
    /\ pc = "idle"
    /\ data = <<>>
    /\ globalStoreData = <<>>
    /\ activeDayIndex = -1
    /\ builtDays = <<>>
    /\ totalRemaining = 0
    /\ fetches = <<[stage |-> "fetch", sheet |-> <<>>]>>

\* setInterval(fetchData, 300000), src/app.js:25
TimerRefresh == fetchData

\* the click listener of the refresh button, src/app.js:28-34 (the spinning
\* icon is presentation)
RefreshClick == fetchData

\* fetch(url) resolves with response.ok, src/app.js:76-77
ResponseOk(f) ==
    /\ pc = "idle"
    /\ fetches[f].stage = "fetch"
    /\ fetches' = [fetches EXCEPT ![f].stage = "text"]
    /\ UNCHANGED <<pc, data, globalStoreData, activeDayIndex, builtDays, totalRemaining>>

FetchFails_clearsStore(f) ==
    /\ pc = "idle"
    /\ fetches[f].stage \in {"fetch", "text"}
    /\ fetches' = [fetches EXCEPT ![f].stage = "failed"]
    /\ globalStoreData' = <<>>
    /\ activeDayIndex' = -1
    /\ UNCHANGED <<pc, data, builtDays, totalRemaining>>

\* fetch(url) rejects, the status is not OK, or response.text() rejects: the
\* catch block of src/app.js:92-96 writes the 'last-updated' text only
FetchFails(f) ==
    /\ pc = "idle"
    /\ fetches[f].stage \in {"fetch", "text"}
    /\ fetches' = [fetches EXCEPT ![f].stage = "failed"]
    /\ UNCHANGED <<pc, data, globalStoreData, activeDayIndex, builtDays, totalRemaining>>

\* response.text() resolves and parseCSV hands the text to Papa.parse,
\* src/app.js:81-82 and 99-100; the complete callback is ProcessData
ResponseText(f) ==
    /\ pc = "idle"
    /\ fetches[f].stage = "text"
    /\ \E sheet \in ServedSheets :
          /\ data' = sheet
          /\ fetches' = [fetches EXCEPT ![f] = [stage |-> "parse", sheet |-> sheet]]
    /\ pc' = "parsed"
    /\ UNCHANGED <<globalStoreData, activeDayIndex, builtDays, totalRemaining>>

NextPage ==
    \/ TimerRefresh
    \/ RefreshClick
    \/ \E f \in DOMAIN fetches : ResponseOk(f) \/ FetchFails(f) \/ ResponseText(f)
    \/ ProcessData
    \/ DaySelectorChange

SpecPage == InitPage /\ [][NextPage]_vars

-----------------------------------------------------------------------------
(* Vocabulary of the properties *)

\* processData has run on data past its early return
Processed == pc = "idle" /\ Len(data) >= 2

\* the rows of the sheet that yield records, in sheet order
ProductRows == SelectSeq(Tail(data), IsProductRow)

\* the record of product row k on built day d
Rec(d, k) == builtDays[d].products[k]

DayNums == 1..Len(builtDays)

RecNums(d) == 1..Len(builtDays[d].products)

\* the value of the sheet's brought-forward cell of row on day d
SheetBroughtForward(d, row) ==
    ExtractBlock(data[1], row, DayStartCol(d), 0, NoValues).broughtForwardSheet

HasDataFlags == [d \in DayNums |-> builtDays[d].hasData]

StoredDays == [d \in DayNums |-> StoredDay(builtDays[d])]

\* the roles of the header vocabulary, in the order the columns are tested
IsBroughtForwardHeader(h) == includes(toLowerCase(h), kwBroughtForward)

IsReceivedHeader(h) ==
    /\ ~IsBroughtForwardHeader(h)
    /\ includes(toLowerCase(h), kwReceived) \/ includes(toLowerCase(h), kwTotal)

IsSoldHeader(h) ==
    /\ ~IsBroughtForwardHeader(h)
    /\ ~IsReceivedHeader(h)
    /\ includes(toLowerCase(h), kwSold) \/ includes(toLowerCase(h), kwStockCut)

IsWasteHeader(h) ==
    /\ ~IsBroughtForwardHeader(h)
    /\ ~IsReceivedHeader(h)
    /\ ~IsSoldHeader(h)
    /\ includes(toLowerCase(h), kwWas) \/ includes(toLowerCase(h), kwDiscard)

\* the columns 0..7 of day block d whose header has the role Is
RoleCols(d, Is(_)) == {c \in 0..7 : Is(At(data[1], 8 + 8 * (d - 1) + c))}

AbsCell(d, row, c) == Abs(cleanNumber(At(row, 8 + 8 * (d - 1) + c)))

MaxAbsOver(d, row, cols) ==
    IF cols = {} THEN 0
    ELSE CHOOSE m \in {AbsCell(d, row, c) : c \in cols} :
             \A c \in cols : AbsCell(d, row, c) <= m

RECURSIVE SumAbsOver(_, _, _)
SumAbsOver(d, row, cols) ==
    IF cols = {} THEN 0
    ELSE LET c == CHOOSE x \in cols : TRUE
         IN  AbsCell(d, row, c) + SumAbsOver(d, row, cols \ {c})

NonEmptyText(t) == trim(t) # <<>>

-----------------------------------------------------------------------------
(* Properties *)

\* C1: every product record emitted by processData, for every product and
\* every day, satisfies remain = broughtForward + received - sold - waste.
C1_Conservation ==
    /\ \A d \in DayNums : \A k \in RecNums(d) :
          Rec(d, k).remain =
              Rec(d, k).broughtForward + Rec(d, k).received
                  - Rec(d, k).sold - Rec(d, k).waste
    /\ \A i \in 1..Len(globalStoreData) :
          \A k \in 1..Len(globalStoreData[i].products) :
             LET p == globalStoreData[i].products[k]
             IN  p.remain = p.broughtForward + p.received - p.sold - p.waste

\* a record with all of brought forward, received, sold and waste nonzero
C1_Witness ==
    /\ Processed
    /\ \E i \in 1..Len(globalStoreData) :
          \E k \in 1..Len(globalStoreData[i].products) :
             LET p == globalStoreData[i].products[k]
             IN  p.broughtForward > 0 /\ p.received > 0 /\ p.sold > 0 /\ p.waste > 0

\* C2: in the day sequence built by processData, for every day d > 1 and
\* every product record of day d-1, the record of the same product row on
\* day d has broughtForward equal to that row's remain on day d-1, on every
\* sheet, sheets with two rows of the same code included.
C2_CarryContinuity ==
    Processed =>
        \A d \in DayNums : d > 1 =>
            \A k \in RecNums(d - 1) :
                Rec(d, k).broughtForward = Rec(d - 1, k).remain

\* C3 as stated: on day 1 a record's broughtForward is the sheet's
\* brought-forward cell value when that value is nonzero (negative values
\* included) and 0 otherwise.
C3_Day1NonzeroSeed ==
    Processed =>
        \A rows \in {ProductRows} : \A k \in RecNums(1) :
            Rec(1, k).broughtForward = SheetBroughtForward(1, rows[k])

\* the remain left on day 1 by the nearest earlier row with the code of row k,
\* 0 when there is no such row
EarlierRemain(k) ==
    LET js == {j \in 1..(k - 1) : Rec(1, j).code = Rec(1, k).code}
    IN  IF js = {} THEN 0
        ELSE Rec(1, CHOOSE j \in js : \A j2 \in js : j2 <= j).remain

\* C3 amended: on day 1 a record's broughtForward is the remain of the
\* nearest earlier row with the same code when that is nonzero; otherwise it
\* is the sheet's brought-forward cell value when that value is greater than
\* zero, and 0 when the value is zero, negative or absent.
C3_Day1PositiveSeed ==
    Processed =>
        \A rows \in {ProductRows} : \A k \in RecNums(1) :
            \A earlier \in {EarlierRemain(k)}, sheet \in {SheetBroughtForward(1, rows[k])} :
                Rec(1, k).broughtForward =
                    IF earlier # 0 THEN earlier ELSE IF sheet > 0 THEN sheet ELSE 0

\* day 1 has a row seeded from a positive cell and a row with a negative cell
C3_Witness ==
    /\ Processed
    /\ \E k \in RecNums(1) :
          /\ SheetBroughtForward(1, ProductRows[k]) > 0
          /\ Rec(1, k).broughtForward = SheetBroughtForward(1, ProductRows[k])
    /\ \E k \in RecNums(1) :
          /\ SheetBroughtForward(1, ProductRows[k]) < 0
          /\ Rec(1, k).broughtForward = 0

\* one product; day 1: brought-forward cell 10, received cells 5 and 5, sold
\* cells 2 and 1, waste cell 0; day 2: received cell 3, sold cell 3
ExampleSheet ==
    Sheet(Layout1, 2, <<IdentA>>,
          [p \in {<<1, 1>>, <<1, 2>>} |-> IF p[2] = 1 THEN FillExample1 ELSE FillExample2])

\* C4: for one row and one day block, received is the maximum of the absolute
\* values of the received columns, sold and waste are the sums of the
\* absolute values of the sold and of the waste columns; the example sheet
\* gives received 5, sold 3, remain 12 on day 1 and broughtForward 12,
\* remain 12 on day 2.
C4_BlockAggregation ==
    Processed =>
        /\ \A rows \in {ProductRows} : \A d \in DayNums :
              \A cols \in {[received |-> RoleCols(d, IsReceivedHeader),
                            sold |-> RoleCols(d, IsSoldHeader),
                            waste |-> RoleCols(d, IsWasteHeader)]} :
                 \A k \in RecNums(d) :
                    /\ Rec(d, k).received = MaxAbsOver(d, rows[k], cols.received)
                    /\ Rec(d, k).sold = SumAbsOver(d, rows[k], cols.sold)
                    /\ Rec(d, k).waste = SumAbsOver(d, rows[k], cols.waste)
        /\ data = ExampleSheet =>
              /\ Rec(1, 1).broughtForward = 10
              /\ Rec(1, 1).received = 5
              /\ Rec(1, 1).sold = 3
              /\ Rec(1, 1).waste = 0
              /\ Rec(1, 1).remain = 12
              /\ Rec(2, 1).broughtForward = 12
              /\ Rec(2, 1).received = 3
              /\ Rec(2, 1).sold = 3
              /\ Rec(2, 1).remain = 12

\* the example sheet has been processed
C4_Witness == Processed /\ data = ExampleSheet /\ Len(builtDays) = 2

\* C5 as stated: a row yields records only if its category, its code and its
\* name are all non-empty after trimming.
C5_AllThreeRequired ==
    Processed =>
        \A d \in DayNums : \A k \in RecNums(d) :
            /\ NonEmptyText(Rec(d, k).category)
            /\ NonEmptyText(Rec(d, k).code)
            /\ NonEmptyText(Rec(d, k).name)

HasCategoryAndName(row) == NonEmptyText(At(row, 1)) /\ NonEmptyText(At(row, 3))

Identity(recOrRow) == <<recOrRow.category, recOrRow.code, recOrRow.name>>

\* C5 amended: a row yields records exactly if its category and its name are
\* non-empty after trimming; the code is not tested, so a row with an empty
\* code and a category and a name is in every day's product list.
C5_CategoryAndNameRequired ==
    Processed =>
        LET kept == SelectSeq(Tail(data), HasCategoryAndName)
        IN  \A d \in DayNums :
               /\ Len(builtDays[d].products) = Len(kept)
               /\ \A k \in RecNums(d) :
                     Identity(Rec(d, k)) = <<At(kept[k], 1), At(kept[k], 2), At(kept[k], 3)>>

\* a sheet with a skipped row and a listed row whose code is empty
C5_Witness ==
    /\ Processed
    /\ Len(builtDays[1].products) < Len(data) - 1
    /\ \E k \in RecNums(1) : Rec(1, k).code = <<>>

\* the last day with activity
LastActiveDay == CHOOSE d \in DayNums : HasDataFlags[d] /\ \A d2 \in DayNums : HasDataFlags[d2] => d2 <= d

\* C6: when some day has activity, the output is the built day list cut after
\* the last day with activity; days without activity before it stay.
C6_TrailingOnly ==
    (Processed /\ \E d \in DayNums : HasDataFlags[d]) =>
        globalStoreData = SubSeq(StoredDays, 1, LastActiveDay)

TotalCols == Len(data[1])

\* floor((n - 8) / 8), stated by its bounds
BlocksAfterBase(n) == CHOOSE q \in -2..n : 8 * q <= n - 8 /\ n - 8 < 8 * q + 8

\* C8: the number of day blocks is floor((n - 8) / 8) clamped to [1, 31] and
\* day d starts at column 8 + 8 * (d - 1).
C8_DayBlocks ==
    Processed =>
        /\ Len(builtDays) =
              IF BlocksAfterBase(TotalCols) < 1 THEN 1
              ELSE IF BlocksAfterBase(TotalCols) > 31 THEN 31
              ELSE BlocksAfterBase(TotalCols)
        /\ \A d \in DayNums :
              builtDays[d].dayNum = d /\ builtDays[d].dayStartCol = 8 + 8 * (d - 1)

\* a header row wide enough for more than 31 blocks
C8_Witness == Processed /\ TotalCols >= 272 /\ Len(builtDays) = 31

\* C9 as stated: 1 block for 8 columns, 2 for 16, 11 for 100, 1 for 5.
C9_CountsAsStated ==
    Processed =>
        /\ TotalCols = 8 => Len(builtDays) = 1
        /\ TotalCols = 16 => Len(builtDays) = 2
        /\ TotalCols = 100 => Len(builtDays) = 11
        /\ TotalCols = 5 => Len(builtDays) = 1

\* C9 amended: 1 block for 8 columns, 1 for 16, 11 for 100, 1 for 5.
C9_Counts ==
    Processed =>
        /\ TotalCols = 8 => Len(builtDays) = 1
        /\ TotalCols = 16 => Len(builtDays) = 1
        /\ TotalCols = 100 => Len(builtDays) = 11
        /\ TotalCols = 5 => Len(builtDays) = 1

\* a sheet of 100 columns has been cut into 11 blocks
C9_Witness == Processed /\ TotalCols = 100 /\ Len(builtDays) = 11

\* C10: a record whose sold + waste exceeds its broughtForward + received
\* keeps the negative remain, the same value is the broughtForward of that
\* row on the next day, and only the summary card clamps to zero.
C10_NegativeCarried ==
    Processed =>
        /\ \A d \in DayNums : \A k \in RecNums(d) :
              Rec(d, k).sold + Rec(d, k).waste > Rec(d, k).broughtForward + Rec(d, k).received
                  => /\ Rec(d, k).remain < 0
                     /\ d < Len(builtDays) =>
                            Rec(d + 1, k).broughtForward = Rec(d, k).remain
        /\ \A i \in 1..Len(globalStoreData) :
              globalStoreData[i].products = builtDays[globalStoreData[i].dayNum].products
        /\ totalRemaining >= 0

-----------------------------------------------------------------------------
(* Vocabulary of the properties of the page *)

FetchIds == DOMAIN fetches

InStage(stages) == {f \in FetchIds : fetches[f].stage \in stages}

\* globalStoreData as one pass over sheet leaves it
PassOutput(sheet) == ProcessDataResult(sheet, -1, 0).globalStoreData

\* the fetches whose text went through a pass past the early return
Passed == {f \in InStage({"done"}) : Len(fetches[f].sheet) >= 2}

\* C11: under every interleaving of load, timer and clicks at most one pass
\* is active, globalStoreData is empty (before the first pass) or the whole
\* output of one pass over one fetched sheet, and a pass starts from its own
\* empty carry map: the first product row of day 1 opens with the sheet's
\* value when positive and with 0 otherwise, whatever earlier passes left.
C11_OnePassAtATime ==
    /\ Cardinality(InStage({"parse"})) <= 1
    /\ pc = "parsed" <=> InStage({"parse"}) # {}
    /\ \/ globalStoreData = <<>>
       \/ \E f \in Passed : globalStoreData = PassOutput(fetches[f].sheet)
    /\ Processed /\ ProductRows # <<>> =>
           \A sheet \in {SheetBroughtForward(1, ProductRows[1])} :
               Rec(1, 1).broughtForward = IF sheet > 0 THEN sheet ELSE 0

\* two passes over different sheets have run while a third fetchData call
\* is still waiting for its answer
C11_Witness ==
    /\ pc = "idle"
    /\ InStage({"fetch", "text"}) # {}
    /\ \E f, g \in Passed : fetches[f].sheet # fetches[g].sheet
    /\ globalStoreData # <<>>

\* every fetchData call has ended
AllSettled == pc = "idle" /\ InStage({"fetch", "text", "parse"}) = {}

\* C12: once every fetchData call has ended, globalStoreData is the output
\* of the pass over the sheet of the most recently started call among those
\* that ran a pass, however the answers were ordered.
C12_LatestFetchWins ==
    AllSettled =>
        \A f \in Passed :
            (\A g \in Passed : g <= f) => globalStoreData = PassOutput(fetches[f].sheet)

\* C13: a step in which a fetchData call fails changes neither
\* globalStoreData nor activeDayIndex.
C13_FailedFetchWritesNothing ==
    [][(\E f \in FetchIds : fetches[f].stage # "failed" /\ fetches'[f].stage = "failed")
          => /\ globalStoreData' = globalStoreData
             /\ activeDayIndex' = activeDayIndex]_vars

\* a fetchData call started after the call behind the current snapshot has
\* failed, and the snapshot with its active day is in place
C13_Witness ==
    /\ \E f \in InStage({"failed"}) : \E g \in Passed : g < f
    /\ globalStoreData # <<>>
    /\ activeDayIndex >= 0

\* the identity columns of a product row and of a record
RowIdentity(row) == <<At(row, 1), At(row, 2), At(row, 3)>>

RecordIdentity(p) == <<p.category, p.code, p.name>>

\* st holds only day blocks of sheet, each once and in order, and in each of
\* them one record per product row of sheet with the received, sold and
\* waste values of that row's cells
FromSheet(st, sheet) ==
    \A row1 \in {sheet[1]}, rows \in {SelectSeq(Tail(sheet), IsProductRow)} :
        /\ \A i \in DOMAIN st : st[i].dayNum \in 1..MaxDaysOf(Len(row1))
        /\ \A i, j \in DOMAIN st : i < j => st[i].dayNum < st[j].dayNum
        /\ \A i \in DOMAIN st :
              /\ Len(st[i].products) = Len(rows)
              /\ \A k \in DOMAIN st[i].products :
                    \A p \in {st[i].products[k]}, row \in {rows[k]},
                       dayStartCol \in {DayStartCol(st[i].dayNum)} :
                        \A x \in {ExtractBlock(row1, row, dayStartCol, 0, NoValues)} :
                            /\ RecordIdentity(p) = RowIdentity(row)
                            /\ p.received = x.received
                            /\ p.sold = x.sold
                            /\ p.waste = x.waste

\* C14 as stated: after a successful fetch of any sheet, a sheet of fewer
\* than two rows included, globalStoreData holds nothing of an earlier sheet.
C14_RebuiltFromEverySheet ==
    pc = "idle" /\ InStage({"done"}) # {} =>
        IF Len(data) >= 2 THEN FromSheet(globalStoreData, data)
        ELSE \A i \in DOMAIN globalStoreData : globalStoreData[i].products = <<>>

\* C14: a pass over a sheet of at least two rows leaves in globalStoreData
\* only days and records of that sheet; a sheet of fewer than two rows is
\* not processed and leaves globalStoreData and activeDayIndex as they were.
C14_RebuiltFromSheetsWithRows ==
    [][pc = "parsed" /\ pc' = "idle"
          => IF Len(data) >= 2
             THEN \A st \in {globalStoreData'} : FromSheet(st, data)
             ELSE /\ globalStoreData' = globalStoreData
                  /\ activeDayIndex' = activeDayIndex]_vars

\* the one-day sheet has replaced the output of the two-day sheet
C14_Witness ==
    /\ pc = "idle"
    /\ data = SheetOneDay
    /\ \E f \in Passed : fetches[f].sheet = SheetTwoDays
    /\ Len(globalStoreData) = 1
    /\ FromSheet(globalStoreData, data)

-----------------------------------------------------------------------------
(* Properties of the cell normaliser *)

\* the received cell of the one product row of a cell sheet
ReceivedCell == At(data[2], 9)

\* the text without its commas and the white space around it
Cleaned(text) == trim(SelectSeq(text, LAMBDA ch : ch # ","))

\* no number starts the cleaned text: it is empty or does not begin with a
\* digit or with a sign and a digit
Unparsable(c) ==
    \/ c = <<>>
    \/ /\ Head(c) \notin DigitChars
       /\ ~(Head(c) \in {"-", "+"} /\ Len(c) >= 2 /\ c[2] \in DigitChars)

\* C15: cleanNumber gives a number for every cell text, 0 for empty,
\* white-space, "-" and unparsable texts, 1234 for "1,234", and processData
\* takes the absolute value of that number as the received value.
C15_CleanNumberTotal ==
    Processed =>
        \A text \in {ReceivedCell} : \A n \in {cleanNumber(text)} :
            /\ n \in Int
            /\ Rec(1, 1).received = Abs(n)
            /\ Unparsable(Cleaned(text)) => n = 0
            /\ text \in {<<>>, <<" ", " ">>, <<"-">>, <<"a", "b", "c">>} => n = 0
            /\ text = <<"1", ",", "2", "3", "4">> => n = 1234
            /\ text = <<"-", "1", ",", "2", "3", "4">> => n = 0 - 1234

\* the cell "1,234" has been read as 1234
C15_Witness ==
    /\ Processed
    /\ ReceivedCell = <<"1", ",", "2", "3", "4">>
    /\ Rec(1, 1).received = 1234

-----------------------------------------------------------------------------
(* Properties of the carry map *)

\* the rows above row k that have its code
SameCodeAbove(k) == {j \in 1..(k - 1) : Rec(1, j).code = Rec(1, k).code}

\* the last row of the sheet that has the code of row k
LastSameCode(k) ==
    CHOOSE j \in RecNums(1) :
        /\ Rec(1, j).code = Rec(1, k).code
        /\ \A j2 \in RecNums(1) : Rec(1, j2).code = Rec(1, k).code => j2 <= j

\* the entry of the carry map for the code of row k when the row loop of day
\* d reaches row k: written by the nearest row above with that code on day d,
\* else by the last row with that code on day d - 1; none on day 1 without
\* such a row above
HasEntry(d, k) == d > 1 \/ SameCodeAbove(k) # {}

Entry(d, k) ==
    IF SameCodeAbove(k) # {}
    THEN Rec(d, CHOOSE j \in SameCodeAbove(k) : \A j2 \in SameCodeAbove(k) : j2 <= j).remain
    ELSE Rec(d - 1, LastSameCode(k)).remain

\* C16: a record opens with the sheet's brought-forward value only on day 1,
\* when no entry exists yet for its code and the value is positive; with an
\* entry, a zero entry included, and on every later day it opens with the
\* entry, and without an entry and without a positive value with 0.
C16_SeedOnlyWithoutEntry ==
    Processed =>
        \A rows \in {ProductRows} : \A d \in DayNums : \A k \in RecNums(d) :
            \A sheet \in {SheetBroughtForward(d, rows[k])} :
                Rec(d, k).broughtForward =
                    IF HasEntry(d, k) THEN Entry(d, k)
                    ELSE IF sheet > 0 THEN sheet ELSE 0

\* a record whose five numbers are all zero
AllZero(p) ==
    p.broughtForward = 0 /\ p.received = 0 /\ p.sold = 0 /\ p.waste = 0 /\ p.remain = 0

\* C17: every built day holds one record per valid product row, in sheet
\* order and with the row's category, code and name, all-zero records
\* included, so that every built day lists the same sequence of codes.
C17_OneRecordPerRow ==
    Processed =>
        \A rows \in {ProductRows} : \A d \in DayNums :
            /\ Len(builtDays[d].products) = Len(rows)
            /\ \A k \in RecNums(d) : RecordIdentity(Rec(d, k)) = RowIdentity(rows[k])
            /\ [k \in RecNums(d) |-> Rec(d, k).code] = [k \in RecNums(1) |-> Rec(1, k).code]

\* a day with activity that also holds an all-zero record of another row
C17_Witness ==
    /\ Processed
    /\ \E d \in DayNums :
          /\ \E k \in RecNums(d) : AllZero(Rec(d, k))
          /\ \E k \in RecNums(d) : ~AllZero(Rec(d, k))

\* the day numbers that globalStoreData holds
StoredDayNums == {globalStoreData[i].dayNum : i \in DOMAIN globalStoreData}

\* C18 as stated: a nonzero remain of any record on day d gives every later
\* day block hasData = true and a place in globalStoreData.
C18_RemainKeepsAllLaterDays ==
    Processed =>
        \A d \in DayNums : \A k \in RecNums(d) :
            Rec(d, k).remain # 0 =>
                \A d2 \in DayNums : d2 > d => builtDays[d2].hasData /\ d2 \in StoredDayNums

\* C18: when the last row with some code ends day d with a nonzero remain
\* (the entry carried to day d + 1), day d + 1 has hasData = true and is in
\* globalStoreData whatever its cells hold; and a day missing from
\* globalStoreData has hasData = false and only all-zero records.
C18_CarriedRemainKeepsNextDay ==
    Processed =>
        /\ \A d \in DayNums : \A k \in RecNums(d) :
              d < Len(builtDays) /\ Rec(d, LastSameCode(k)).remain # 0
                  => builtDays[d + 1].hasData /\ (d + 1) \in StoredDayNums
        /\ \A d \in DayNums :
              d \notin StoredDayNums
                  => ~builtDays[d].hasData /\ \A k \in RecNums(d) : AllZero(Rec(d, k))

\* a day whose received, sold and waste values are all zero is kept for the
\* remain carried into it
C18_Witness ==
    /\ Processed
    /\ \E d \in DayNums :
          /\ d > 1
          /\ \A k \in RecNums(d) :
                Rec(d, k).received = 0 /\ Rec(d, k).sold = 0 /\ Rec(d, k).waste = 0
          /\ \E k \in RecNums(d) : Rec(d, k).broughtForward # 0
          /\ builtDays[d].hasData
          /\ d \in StoredDayNums

\* no two product rows of the sheet carry the same code
DistinctCodes ==
    \A j, k \in RecNums(1) : j # k => Rec(1, j).code # Rec(1, k).code

\* C19: on a sheet with pairwise distinct codes every record of an output
\* day after the first opens with the remain of the same row on the output
\* day before it, also when days between the two were filtered out.
C19_OutputContinuity ==
    Processed /\ DistinctCodes =>
        \A i \in DOMAIN globalStoreData : i > 1 =>
            \A k \in DOMAIN globalStoreData[i].products :
                globalStoreData[i].products[k].broughtForward
                    = globalStoreData[i - 1].products[k].remain

\* two rows with different codes, and an output day that follows a gap
C19_Witness ==
    /\ Processed
    /\ DistinctCodes
    /\ Len(ProductRows) >= 2
    /\ \E i \in DOMAIN globalStoreData :
          /\ i > 1
          /\ globalStoreData[i].dayNum > globalStoreData[i - 1].dayNum + 1
          /\ \E k \in DOMAIN globalStoreData[i].products :
                globalStoreData[i].products[k].remain # 0

-----------------------------------------------------------------------------
(* Properties of the active day *)

\* C20: after any sequence of reloads and day-selector changes, whenever
\* globalStoreData is not empty, activeDayIndex is an index of it.
C20_ActiveDayInRange ==
    globalStoreData # <<>> =>
        0 <= activeDayIndex /\ activeDayIndex < Len(globalStoreData)

\* a reload is about to run its pass over a sheet that yields no more days
\* than the stored index of the snapshot on display counts
C20_Witness ==
    /\ pc = "parsed"
    /\ Len(data) >= 2
    /\ globalStoreData # <<>>
    /\ activeDayIndex >= Len(PassOutput(data))

====
